---- MODULE Spec2Model ----
(***************************************************************************)
(* The e-mail verification pipeline of backend/server.js (class            *)
(* EmailValidator and the stand-alone validators that follow it) and of    *)
(* backend/controllers/enhanced-validator.controller1.js.                  *)
(*                                                                         *)
(* JavaScript strings are sequences of one-character strings.  A feature   *)
(* value v (a number between 0 and 1) is held as the integer v * Unit, so  *)
(* that len/50, len/30, d/3, n/5 and 0.5 are all exact.                    *)
(***************************************************************************)
EXTENDS Integers, Sequences, FiniteSets, TLC

\* ------------------------------------------------------------- bounds
\* longest generated raw input (characters of GenAlphabet)
MaxLen == 2
\* most MX records one resolveMx answer holds
MaxMx == 2
\* most addresses one resolve4 answer holds
MaxIps == 2
\* calls of the same operation made in a row on one instance
MaxCalls == 2

\* ------------------------------------------------------ JavaScript values
Unit == 2 * 3 * 5 * 5

Str(s) == [t |-> "string", v |-> s]
Null == [t |-> "null", v |-> <<>>]
Num42 == [t |-> "number", v |-> <<>>]
JsFalse == [t |-> "boolean", v |-> <<>>]
Undefined == [t |-> "undefined", v |-> <<>>]

IsStr(x) == x.t = "string"

LowerSeq == <<"a", "b", "c", "d", "e", "f", "g", "h", "i", "j", "k", "l", "m",
              "n", "o", "p", "q", "r", "s", "t", "u", "v", "w", "x", "y", "z">>
UpperSeq == <<"A", "B", "C", "D", "E", "F", "G", "H", "I", "J", "K", "L", "M",
              "N", "O", "P", "Q", "R", "S", "T", "U", "V", "W", "X", "Y", "Z">>
Digits == {"0", "1", "2", "3", "4", "5", "6", "7", "8", "9"}
Lowers == {LowerSeq[i] : i \in 1..26}
Uppers == {UpperSeq[i] : i \in 1..26}

\* /\s/
IsSpace(c) == c \in {" ", "\t"}
\* /\d/
IsDigit(c) == c \in Digits
\* /\w/
IsWord(c) == c \in Lowers \cup Uppers \cup Digits \cup {"_"}
\* /[^\w\s@]/
IsSpecial(c) == ~IsWord(c) /\ ~IsSpace(c) /\ c # "@"

Min(a, b) == IF a < b THEN a ELSE b

\* String.prototype.toLowerCase
ToLowerCh(c) == IF c \in Uppers THEN LowerSeq[CHOOSE i \in 1..26 : UpperSeq[i] = c] ELSE c
ToLower(s) == [i \in 1..Len(s) |-> ToLowerCh(s[i])]

\* String.prototype.trim
RECURSIVE TrimLeft(_)
TrimLeft(s) == IF s # <<>> /\ IsSpace(Head(s)) THEN TrimLeft(Tail(s)) ELSE s
RECURSIVE TrimRight(_)
TrimRight(s) ==
  IF s # <<>> /\ IsSpace(s[Len(s)]) THEN TrimRight(SubSeq(s, 1, Len(s) - 1)) ELSE s
Trim(s) == TrimRight(TrimLeft(s))

\* String.prototype.includes(c) for a one-character c
Includes(s, c) == \E i \in 1..Len(s) : s[i] = c

\* String.prototype.split(c) for a one-character separator c
RECURSIVE SplitAt(_, _, _, _)
SplitAt(s, c, cur, acc) ==
  IF s = <<>> THEN Append(acc, cur)
  ELSE IF Head(s) = c THEN SplitAt(Tail(s), c, <<>>, Append(acc, cur))
  ELSE SplitAt(Tail(s), c, Append(cur, Head(s)), acc)
Split(s, c) == SplitAt(s, c, <<>>, <<>>)

\* String.prototype.split(/\s+/): the pieces between maximal runs of white space
RECURSIVE SplitWsAt(_, _, _, _)
SplitWsAt(s, cur, acc, inRun) ==
  IF s = <<>> THEN Append(acc, cur)
  ELSE IF IsSpace(Head(s))
       THEN IF inRun THEN SplitWsAt(Tail(s), cur, acc, TRUE)
            ELSE SplitWsAt(Tail(s), <<>>, Append(acc, cur), TRUE)
       ELSE SplitWsAt(Tail(s), Append(cur, Head(s)), acc, FALSE)
SplitWs(s) == SplitWsAt(s, <<>>, <<>>, FALSE)

\* String.prototype.startsWith
StartsWith(s, p) == Len(s) >= Len(p) /\ SubSeq(s, 1, Len(p)) = p

\* ------------------------------------------------------- reference data
gmail_com == <<"g", "m", "a", "i", "l", ".", "c", "o", "m">>
example_com == <<"e", "x", "a", "m", "p", "l", "e", ".", "c", "o", "m">>

commonDomains ==
  << gmail_com,
     <<"y", "a", "h", "o", "o", ".", "c", "o", "m">>,
     <<"h", "o", "t", "m", "a", "i", "l", ".", "c", "o", "m">>,
     <<"o", "u", "t", "l", "o", "o", "k", ".", "c", "o", "m">>,
     <<"a", "o", "l", ".", "c", "o", "m">>,
     <<"i", "c", "l", "o", "u", "d", ".", "c", "o", "m">>,
     <<"p", "r", "o", "t", "o", "n", "m", "a", "i", "l", ".", "c", "o", "m">>,
     <<"m", "a", "i", "l", ".", "c", "o", "m">>,
     <<"z", "o", "h", "o", ".", "c", "o", "m">>,
     <<"y", "a", "n", "d", "e", "x", ".", "c", "o", "m">> >>

topLevelDomains ==
  { <<"c", "o", "m">>, <<"o", "r", "g">>, <<"n", "e", "t">>, <<"e", "d", "u">>,
    <<"g", "o", "v">>, <<"m", "i", "l">>, <<"i", "o">>, <<"c", "o">>, <<"u", "s">>,
    <<"u", "k">>, <<"c", "a">>, <<"a", "u">>, <<"d", "e">>, <<"f", "r">>,
    <<"j", "p">>, <<"c", "n">>, <<"r", "u">>, <<"i", "n">>, <<"b", "r">>,
    <<"i", "t">> }

\* the list the package disposable-email-domains exports (two of its entries)
disposableDomains ==
  { <<"y", "o", "p", "m", "a", "i", "l", ".", "c", "o", "m">>,
    <<"m", "a", "i", "l", "i", "n", "a", "t", "o", "r", ".", "c", "o", "m">> }

featureLabels ==
  << "inputValidation", "syntaxValidation", "emailLength", "localPartLength",
     "domainLength", "disposableDomain", "commonDomain", "domainTypoScore",
     "tldPopularity", "dnsValidation", "mxValidation", "mxRecordCount",
     "dnsblValidation", "spfValidation", "dmarcValidation", "dkimValidation",
     "smtpValidation", "hasNumbers", "specialCharCount", "consecutiveSpecialChars" >>

featureLabels1 ==
  << "inputValidation", "syntaxValidation", "disposableDomain", "dnsValidation",
     "mxValidation", "dnsblValidation", "spfValidation", "dmarcValidation",
     "smtpValidation" >>

dnsblZones ==
  << "zen.spamhaus.org", "b.barracudacentral.org", "bl.spamcop.net",
     "dnsbl.sorbs.net", "spam.dnsbl.sorbs.net", "cbl.abuseat.org" >>

selectors == << "default", "google", "k1", "selector1", "selector2", "dkim" >>

gmailSelectors ==
  << "default", "google", "google20161025", "google1234567", "selector1",
     "selector2", "k1", "k2", "ctct1", "ctct2", "sm", "s1", "s2", "sig1",
     "litesrv", "zendesk1", "zendesk2", "mail", "email", "dkim", "topd" >>

\* ------------------------------------------------------- AddressParser
\* EmailValidator.sanitizeEmail of server.js: false, or the trimmed lower-cased string
sanitizeEmail_NoCommaCheck(email) ==
  IF email.t # "string" \/ email.v = <<>> \/ Trim(email.v) = <<>> THEN JsFalse
  ELSE IF Includes(email.v, ";") \/ Len(SplitWs(Trim(email.v))) > 1 THEN JsFalse
  ELSE Str(ToLower(Trim(email.v)))

sanitizeEmail(email) ==
  IF email.t # "string" \/ email.v = <<>> \/ Trim(email.v) = <<>> THEN JsFalse
  ELSE IF Includes(email.v, ",") \/ Includes(email.v, ";")
          \/ Len(SplitWs(Trim(email.v))) > 1 THEN JsFalse
  ELSE Str(ToLower(Trim(email.v)))

\* EmailValidator.sanitizeEmail of controller1.js: the same, without toLowerCase
sanitizeEmail1(email) ==
  IF email.t # "string" \/ email.v = <<>> \/ Trim(email.v) = <<>> THEN JsFalse
  ELSE IF Includes(email.v, ",") \/ Includes(email.v, ";")
          \/ Len(SplitWs(Trim(email.v))) > 1 THEN JsFalse
  ELSE Str(Trim(email.v))

\* const [localPart, domain] = sanitized.split('@')
localPartOf(s) == Str(Split(s, "@")[1])
domainOf(s) == IF Len(Split(s, "@")) >= 2 THEN Str(Split(s, "@")[2]) ELSE Undefined

\* ------------------------------------------------------- SyntaxChecker
\* validator.isEmail with its default options, on ASCII input: the text after the
\* last '@' is a domain name with a top-level label of two or more letters, the
\* text before it is dot-separated runs of atom characters
IsAtomCh(c) ==
  c \in Lowers \cup Uppers \cup Digits
        \cup {"!", "#", "$", "%", "&", "'", "*", "+", "-", "/", "=", "?", "^", "_",
              "{", "|", "}", "~"}
IsLabelCh(c) == c \in Lowers \cup Uppers \cup Digits \cup {"-"}
IsLetter(c) == c \in Lowers \cup Uppers

isFQDN(d) ==
  LET parts == Split(d, ".")
      tld == parts[Len(parts)]
  IN /\ Len(parts) >= 2
     /\ Len(tld) >= 2
     /\ \A i \in 1..Len(tld) : IsLetter(tld[i])
     /\ \A k \in 1..Len(parts) :
          /\ parts[k] # <<>>
          /\ Len(parts[k]) <= 63
          /\ \A i \in 1..Len(parts[k]) : IsLabelCh(parts[k][i])
          /\ parts[k][1] # "-"
          /\ parts[k][Len(parts[k])] # "-"

isEmail(s) ==
  LET parts == Split(s, "@")
      n == Len(parts)
      domain == parts[n]
      userParts == [i \in 1..(n - 1) |-> parts[i]]
  IN /\ n = 2
     /\ Len(userParts[1]) <= 64
     /\ Len(domain) <= 254
     /\ isFQDN(domain)
     /\ \A p \in {Split(userParts[1], ".")[i] : i \in 1..Len(Split(userParts[1], "."))} :
          p # <<>> /\ \A i \in 1..Len(p) : IsAtomCh(p[i])

validateEmailFormat(s) == isEmail(s)

\* ----------------------------------------------------- ReputationScorer
\* checkDisposableDomain: true when the domain is NOT on the list
checkDisposableDomain_NotNegated(domain) == ToLower(domain) \in disposableDomains
checkDisposableDomain(domain) == ToLower(domain) \notin disposableDomains

isCommonDomain(domain) == \E i \in 1..Len(commonDomains) : commonDomains[i] = ToLower(domain)

\* fast-levenshtein's get(a, b): the edit distance, one row of the table at a
\* time.  (Each row is bound through a one-element set, so that it is a value
\* when the next row is computed.)
RECURSIVE LevRow(_, _, _, _, _)
LevRow(prev, ch, b, j, row) ==
  IF j > Len(b) THEN row
  ELSE LET sub == prev[j] + (IF ch = b[j] THEN 0 ELSE 1)
           del == prev[j + 1] + 1
           ins == row[j] + 1
       IN CHOOSE r \in {LevRow(prev, ch, b, j + 1, x) :
                          x \in {Append(row, Min(sub, Min(del, ins)))}} : TRUE
RECURSIVE LevFrom(_, _, _, _)
LevFrom(a, b, i, prev) ==
  IF i > Len(a) THEN prev[Len(b) + 1]
  ELSE CHOOSE d \in {LevFrom(a, b, i + 1, x) : x \in {LevRow(prev, a[i], b, 1, <<i>>)}} : TRUE
levenshtein(a, b) ==
  CHOOSE d \in {LevFrom(x, y, 1, [j \in 1..(Len(y) + 1) |-> j - 1]) :
                  x \in {a}, y \in {b}} : TRUE

minDistance(domain) ==
  LET ds == {levenshtein(ToLower(domain), commonDomains[i]) : i \in 1..Len(commonDomains)}
  IN CHOOSE m \in ds : \A x \in ds : m <= x

\* Math.min(minDistance / 3, 1)
calculateDomainTypoScore_NoClamp(domain) ==
  IF isCommonDomain(domain) THEN 0 ELSE minDistance(domain) * (Unit \div 3)
calculateDomainTypoScore(domain) ==
  IF isCommonDomain(domain) THEN 0
  ELSE Min(minDistance(domain) * (Unit \div 3), Unit)

\* domain.split('.').pop().toLowerCase() in topLevelDomains ? 1 : 0.5
tldPopularityScore(domain) ==
  LET parts == Split(domain, ".")
  IN IF ToLower(parts[Len(parts)]) \in topLevelDomains THEN Unit ELSE Unit \div 2

hasNumbers(str) == \E i \in 1..Len(str) : IsDigit(str[i])

countSpecialChars(str) == Cardinality({i \in 1..Len(str) : IsSpecial(str[i])})

hasConsecutiveSpecialChars(str) ==
  \E i \in 1..(Len(str) - 1) : IsSpecial(str[i]) /\ IsSpecial(str[i + 1])

\* cond ? 1 : 0
Bit(b) == IF b THEN Unit ELSE 0

\* ------------------------------------------------------------- inputs
john_doe == <<"j", "o", "h", "n", ".", "d", "o", "e", "@",
              "e", "x", "a", "m", "p", "l", "e", ".", "c", "o", "m">>
invalid_email == <<"i", "n", "v", "a", "l", "i", "d", "@", "e", "m", "a", "i", "l">>
user1_gmail == <<" ", "U", "s", "e", "r", "1", "@", "G", "m", "a", "i", "l", ".", "c", "o", "m", " ">>
two_addresses == <<"a", "@", "b", ".", "c", "o", "m", ",", "c", "@", "d", ".", "c", "o", "m">>
two_tokens == <<"a", "@", "b", ".", "c", "o", " ", "c">>

\* raw inputs with an '@'
Examples ==
  { john_doe, invalid_email, user1_gmail, two_addresses, two_tokens,
    <<"a", "@">>,
    <<"@", "b", ".", "c", "o">>,
    <<"a", ".", ".", "b", "@", "y", "o", "p", "m", "a", "i", "l", ".", "c", "o", "m">> }

\* generated raw inputs: every string of at most MaxLen of these characters
GenAlphabet == {"a", ",", ";", " "}
RECURSIVE StringsUpTo(_)
StringsUpTo(n) ==
  IF n = 0 THEN {<<>>}
  ELSE LET shorter == StringsUpTo(n - 1)
       IN shorter \cup {Append(s, c) : s \in {x \in shorter : Len(x) = n - 1}, c \in GenAlphabet}

Inputs == {Null, Num42} \cup {Str(s) : s \in Examples \cup StringsUpTo(MaxLen)}

\* the inputs of the calls that are repeated against an unchanging network
StableInputs == {Null, Str(john_doe), Str(two_addresses), Str(<<"a">>)}

\* the same inputs, for the stand-alone validators
Domains == {example_com, <<"G", "m", "a", "i", "l", ".", "c", "o", "m">>}
SelectorArgs == {"default", "s1"}

\* ------------------------------------------------------------ network
\* what the resolver and the SMTP verifier can answer
Addr == <<192, 0, 2, 1>>
Reverse(q) == [i \in 1..Len(q) |-> q[Len(q) + 1 - i]]

RECURSIVE SeqsUpTo(_, _)
SeqsUpTo(S, n) ==
  IF n = 0 THEN {<<>>}
  ELSE LET shorter == SeqsUpTo(S, n - 1)
       IN shorter \cup {Append(s, c) : s \in {x \in shorter : Len(x) = n - 1}, c \in S}

Err == [ok |-> FALSE, code |-> "ESERVFAIL", v |-> <<>>]
NotFound == [ok |-> FALSE, code |-> "ENOTFOUND", v |-> <<>>]
Ok(v) == [ok |-> TRUE, code |-> "", v |-> v]

\* exchange hosts of an MX record: absent, blank, a host name
Exchanges == {<<>>, <<" ">>, <<"m", "x">>}
AAnswers == {Err, NotFound, Ok(<<>>), Ok(<<Addr>>)}
MxAnswers == {Err, NotFound} \cup {Ok(r) : r \in SeqsUpTo(Exchanges, MaxMx)}
Ip4Answers == {Err, NotFound} \cup {Ok(r) : r \in SeqsUpTo({Addr}, MaxIps)}
ZoneAnswers == {Err, NotFound, Ok(<<>>), Ok(<<<<127, 0, 0, 2>>>>)}

spf1 == <<"v", "=", "s", "p", "f", "1", " ", "-", "a", "l", "l">>
dmarc1 == <<"v", "=", "D", "M", "A", "R", "C", "1", ";">>
dkim1 == <<"v", "=", "D", "K", "I", "M", "1", ";">>
other_txt == <<"x", " ", "v", "=", "s", "p", "f", "1">>
\* a TXT answer is a list of records, each a list of chunks
TxtAnswers ==
  {Err, NotFound, Ok(<<>>)}
    \cup {Ok(<<<<t>>>>) : t \in {spf1, dmarc1, dkim1, other_txt}}
    \cup {Ok(<<<<other_txt>>, <<other_txt, t>>>>) : t \in {spf1, dmarc1, dkim1}}
SmtpAnswers == {"throws", "valid", "invalid"}

\* Array.prototype.flat on a list of lists
RECURSIVE Flat(_)
Flat(rs) == IF rs = <<>> THEN <<>> ELSE Head(rs) \o Flat(Tail(rs))

SomeStartsWith(rs, p) == \E i \in 1..Len(rs) : StartsWith(rs[i], p)

\* an unchanging network: one answer per kind of query, the same at every call
NoWorld ==
  [stable |-> FALSE, a |-> Err, mx |-> Err, ip |-> Err, listed |-> {}, zoneMiss |-> Err,
   spf |-> Err, dmarc |-> Err, dkimAt |-> {}, dkimMiss |-> Err, smtp |-> "throws"]

Worlds ==
  [stable : {TRUE},
   a : {Err, Ok(<<Addr>>)},
   mx : {NotFound, Ok(<<<<"m", "x">>>>), Ok(<<<<>>, <<"m", "x">>>>)},
   ip : {Err, Ok(<<Addr>>)},
   listed : {{}, {"zen.spamhaus.org"}, {"cbl.abuseat.org"}},
   zoneMiss : {NotFound},
   spf : {Ok(<<>>), Ok(<<<<spf1>>>>)},
   dmarc : {NotFound, Ok(<<<<dmarc1>>>>)},
   dkimAt : {{}, {"default"}, {"dkim"}},
   dkimMiss : {NotFound, Ok(<<<<other_txt>>>>)},
   smtp : {"valid", "invalid"}]

\* ---------------------------------------------------------------- state
VARIABLES
  op,        \* the operation in progress
  email,     \* its argument (extractFeatures)
  selector,  \* its argument (the stand-alone validateDkimRecord)
  sanitized, \* const sanitized
  domain,    \* const domain
  pc,        \* where the operation is
  features,  \* const features = {}: the keys in insertion order, with their values
  mxs,       \* validateDnsblRecords: the MX records still to visit
  ips,       \* validateDnsblRecords: the addresses of the current MX host still to visit
  zi,        \* validateDnsblRecords: the zone about to be queried
  dkLog,     \* validateDkimRecord: the selectors queried so far
  netKinds,  \* the kinds of network operation issued since the call began
  lastq,     \* the last DNS name queried
  lastAns,   \* what the resolver answered to the existence probe that ran last
             \* (kept until the blacklist probe begins)
  blHit,     \* a zone query of this call resolved with at least one record
  blAfter,   \* a DNS query was issued after such a hit
  blRet,     \* how validateDnsblRecords ended
  dkRet,     \* how validateDkimRecord ended
  dkHit,     \* the records of the last selector queried held a v=DKIM1 entry
  caught,    \* extractFeatures' catch block ran
  ret,       \* what the operation returned
  world,     \* the unchanging network, if the network is one
  callNo,    \* calls made so far
  prev,      \* what the previous call returned
  model,     \* this.model: null until trainModel or loadModel sets it
  verdict    \* what predict returned

vars == <<op, email, selector, sanitized, domain, pc, features, mxs, ips, zi, dkLog,
          netKinds, lastq, lastAns, blHit, blAfter, blRet, dkRet, dkHit, caught, ret,
          world, callNo, prev, model, verdict>>

Pending == [t |-> "pending", v |-> <<>>]
Vector(v) == [t |-> "vector", v |-> v]
NoQuery == [kind |-> "none", name |-> <<>>]
NoAnswer == [ok |-> FALSE, code |-> "none", v |-> <<>>]
NoVerdict == [t |-> "none", valid |-> FALSE, confidence |-> 0, error |-> ""]

\* ------------------------------------------------------ the features object
Has(f, k) == \E i \in 1..Len(f) : f[i][1] = k
Get(f, k) == f[CHOOSE i \in 1..Len(f) : f[i][1] = k][2]
\* features[k] = v
Set(f, k, v) ==
  IF Has(f, k) THEN [i \in 1..Len(f) |-> IF f[i][1] = k THEN <<k, v>> ELSE f[i]]
  ELSE Append(f, <<k, v>>)
\* Object.values(features)
Values(f) == [i \in 1..Len(f) |-> f[i][2]]
\* Array(n).fill(0)
Zeros(n) == [i \in 1..n |-> 0]

\* ------------------------------------------------- the network's answers
AnsA == IF world.stable THEN {world.a} ELSE AAnswers
AnsMx == IF world.stable THEN {world.mx} ELSE MxAnswers
AnsIp == IF world.stable THEN {world.ip} ELSE Ip4Answers
AnsZone(zone) ==
  IF world.stable
  THEN {IF zone \in world.listed THEN Ok(<<<<127, 0, 0, 2>>>>) ELSE world.zoneMiss}
  ELSE ZoneAnswers
AnsSpf == IF world.stable THEN {world.spf} ELSE TxtAnswers
AnsDmarc == IF world.stable THEN {world.dmarc} ELSE TxtAnswers
AnsDkim(sel) ==
  IF world.stable
  THEN {IF sel \in world.dkimAt THEN Ok(<<<<dkim1>>>>) ELSE world.dkimMiss}
  ELSE TxtAnswers
AnsSmtp == IF world.stable THEN {world.smtp} ELSE SmtpAnswers

\* ------------------------------------------------------------ the calls
Enhanced == op = "extractFeatures"
Basic == op = "extractFeatures1"

\* the value a boolean probe result is stored as: cond ? 1 : 0 in server.js, the
\* boolean itself in controller1.js
FeatureVal(r) == IF Enhanced THEN Bit(r) ELSE IF r THEN "true" ELSE "false"

\* the labels of the running validator
Labels == IF Basic THEN featureLabels1 ELSE featureLabels

\* return Array(this.featureLabels.length).fill(0), on a rejected input
RejectedVector_OneSlot == <<0>>
RejectedVector == Zeros(Len(featureLabels))

\* the catch block of extractFeatures
CatchVector_Partial == [i \in 1..Len(features) |-> 0]
CatchVector == Zeros(Len(Labels))

\* for (const selector of selectors): the loop starts at the first selector
EnterDkim_KeepCursor == UNCHANGED dkLog
EnterDkim == dkLog' = <<>>

\* a call begins: nothing of an earlier call is left
Begin(o, e, d, sel, first) ==
  /\ op' = o
  /\ email' = e
  /\ selector' = sel
  /\ sanitized' = Undefined
  /\ domain' = d
  /\ pc' = first
  /\ features' = <<>>
  /\ mxs' = <<>>
  /\ ips' = <<>>
  /\ zi' = 1
  /\ netKinds' = {}
  /\ lastq' = NoQuery
  /\ lastAns' = NoAnswer
  /\ blHit' = FALSE
  /\ blAfter' = FALSE
  /\ blRet' = "none"
  /\ dkRet' = "none"
  /\ dkHit' = FALSE
  /\ caught' = FALSE
  /\ ret' = Pending

Init ==
  /\ op = "idle"
  /\ email = Null
  /\ selector = "default"
  /\ sanitized = Undefined
  /\ domain = Undefined
  /\ pc = "idle"
  /\ features = <<>>
  /\ mxs = <<>>
  /\ ips = <<>>
  /\ zi = 1
  /\ dkLog = <<>>
  /\ netKinds = {}
  /\ lastq = NoQuery
  /\ lastAns = NoAnswer
  /\ blHit = FALSE
  /\ blAfter = FALSE
  /\ blRet = "none"
  /\ dkRet = "none"
  /\ dkHit = FALSE
  /\ caught = FALSE
  /\ ret = Pending
  /\ world = NoWorld
  /\ callNo = 0
  /\ prev = Pending
  /\ model = "null"
  /\ verdict = NoVerdict

\* a caller invokes one of the validators
Call ==
  /\ pc = "idle"
  /\ callNo' = 1
  /\ UNCHANGED <<world, prev, model, verdict>>
  /\ \/ \E e \in Inputs :
          Begin("extractFeatures", e, Undefined, "default", "sanitize") /\ UNCHANGED dkLog
     \/ \E e \in Inputs :
          Begin("extractFeatures1", e, Undefined, "default", "sanitize") /\ UNCHANGED dkLog
     \/ \E d \in Domains :
          Begin("validateDnsblRecords", Null, Str(d), "default", "bl_mx") /\ UNCHANGED dkLog
     \/ \E d \in Domains, sel \in SelectorArgs :
          Begin("validateDkimRecord", Null, Str(d), sel, "dkim") /\ EnterDkim
     \/ \E d \in Domains :
          Begin("validateDnsRecords", Null, Str(d), "default", "dnsA") /\ UNCHANGED dkLog
     \/ \E d \in Domains :
          Begin("validateMxRecords", Null, Str(d), "default", "mx") /\ UNCHANGED dkLog

\* ------------------------------------------------------ FeatureAggregator
\* server.js extractFeatures, up to the early return
EF_Sanitize ==
  /\ Enhanced /\ pc = "sanitize"
  /\ LET s == sanitizeEmail(email)
     IN /\ sanitized' = s
        /\ features' = Set(features, "inputValidation", Bit(IsStr(s)))
        /\ IF IsStr(s)
           THEN pc' = "pure" /\ ret' = ret
           ELSE pc' = "done" /\ ret' = Vector(RejectedVector)
  /\ UNCHANGED <<op, email, selector, domain, mxs, ips, zi, dkLog, netKinds, lastq, lastAns,
                 blHit, blAfter, blRet, dkRet, dkHit, caught, world, callNo, prev, model, verdict>>

\* server.js extractFeatures, from the syntax check to the first DNS query
EF_Pure ==
  /\ Enhanced /\ pc = "pure"
  /\ LET s == sanitized.v
         lp == localPartOf(s).v
         dom == domainOf(s)
         f1 == Set(features, "syntaxValidation", Bit(validateEmailFormat(s)))
         f2 == Set(f1, "emailLength", Min(Len(s) * (Unit \div 50), Unit))
         f3 == Set(f2, "localPartLength", Min(Len(lp) * (Unit \div 30), Unit))
     IN IF dom = Undefined
        THEN \* domain.length: TypeError, caught by the catch block
             /\ features' = f3
             /\ domain' = dom
             /\ caught' = TRUE
             /\ ret' = Vector(CatchVector)
             /\ pc' = "done"
        ELSE LET d == dom.v
                 f4 == Set(f3, "domainLength", Min(Len(d) * (Unit \div 30), Unit))
                 f5 == Set(f4, "disposableDomain", Bit(checkDisposableDomain(d)))
                 f6 == Set(f5, "commonDomain", Bit(isCommonDomain(d)))
                 f7 == Set(f6, "domainTypoScore", calculateDomainTypoScore(d))
                 f8 == Set(f7, "tldPopularity", tldPopularityScore(d))
             IN /\ features' = f8
                /\ domain' = dom
                /\ caught' = caught
                /\ ret' = ret
                /\ pc' = "dnsA"
  /\ UNCHANGED <<op, email, selector, sanitized, mxs, ips, zi, dkLog, netKinds, lastq, lastAns,
                 blHit, blAfter, blRet, dkRet, dkHit, world, callNo, prev, model, verdict>>

\* controller1.js extractFeatures, up to the first DNS query
E1_Sanitize ==
  /\ Basic /\ pc = "sanitize"
  /\ LET s == sanitizeEmail1(email)
         f1 == Set(features, "inputValidation", IF IsStr(s) THEN "true" ELSE "false")
     IN /\ sanitized' = s
        /\ IF ~IsStr(s)
           THEN \* validator.isEmail(false): TypeError, caught by the catch block
                /\ features' = f1
                /\ domain' = domain
                /\ caught' = TRUE
                /\ ret' = Vector(CatchVector)
                /\ pc' = "done"
           ELSE LET f2 == Set(f1, "syntaxValidation",
                              IF validateEmailFormat(s.v) THEN "true" ELSE "false")
                    dom == domainOf(s.v)
                IN IF dom = Undefined
                   THEN \* domain.toLowerCase(): TypeError, caught by the catch block
                        /\ features' = f2
                        /\ domain' = dom
                        /\ caught' = TRUE
                        /\ ret' = Vector(CatchVector)
                        /\ pc' = "done"
                   ELSE /\ features' = Set(f2, "disposableDomain",
                                           IF checkDisposableDomain(dom.v)
                                           THEN "true" ELSE "false")
                        /\ domain' = dom
                        /\ caught' = caught
                        /\ ret' = ret
                        /\ pc' = "dnsA"
  /\ UNCHANGED <<op, email, selector, mxs, ips, zi, dkLog, netKinds, lastq, lastAns,
                 blHit, blAfter, blRet, dkRet, dkHit, world, callNo, prev, model, verdict>>

\* ---------------------------------------------------------------- DNSProbe
\* validateDnsRecords, on the answer of dns.resolve(domain, 'A'): addresses.length > 0,
\* false in the catch
validateDnsRecords(ans) == ans.ok /\ Len(ans.v) > 0

\* mxRecords.some(record => record.exchange && record.exchange.trim())
SomeExchange(recs) == \E i \in 1..Len(recs) : recs[i] # <<>> /\ Trim(recs[i]) # <<>>

\* validateMxRecords, on the answer of dns.resolveMx(domain)
validateMxRecords_AnyRecord(ans) == ans.ok /\ Len(ans.v) > 0
validateMxRecords(ans) == ans.ok /\ SomeExchange(ans.v)

\* getMxRecordCount, on the answer of dns.resolveMx(domain):
\* Math.min(mxRecords.length / 5, 1), 0 in the catch
getMxRecordCount_Raw(ans) == IF ans.ok THEN Len(ans.v) * Unit ELSE 0
getMxRecordCount(ans) == IF ans.ok THEN Min(Len(ans.v) * (Unit \div 5), Unit) ELSE 0

\* an existence probe ends: the class's methods return the boolean, which
\* extractFeatures stores; the stand-alone functions return nothing when the
\* check passed and throw their tagged error when it did not
ExistenceFinish(label, passed, next) ==
  IF Enhanced \/ Basic
  THEN /\ features' = Set(features, label, FeatureVal(passed))
       /\ pc' = next
       /\ ret' = ret
  ELSE /\ features' = features
       /\ pc' = "done"
       /\ ret' = [t |-> IF passed THEN "undefined" ELSE "throw", v |-> <<>>]

\* validateDnsRecords: dns.resolve(domain, 'A')
DnsA ==
  /\ pc = "dnsA"
  /\ \E ans \in AnsA :
       /\ lastAns' = ans
       /\ ExistenceFinish("dnsValidation", validateDnsRecords(ans), "mx")
  /\ netKinds' = netKinds \cup {"A"}
  /\ lastq' = [kind |-> "A", name |-> <<domain.v>>]
  /\ UNCHANGED <<op, email, selector, sanitized, domain, mxs, ips, zi, dkLog,
                 blHit, blAfter, blRet, dkRet, dkHit, caught, world, callNo, prev,
                 model, verdict>>

\* validateMxRecords: dns.resolveMx(domain)
MxV ==
  /\ pc = "mx"
  /\ \E ans \in AnsMx :
       /\ lastAns' = ans
       /\ ExistenceFinish("mxValidation", validateMxRecords(ans),
                          IF Enhanced THEN "mxcount" ELSE "bl_mx")
  /\ netKinds' = netKinds \cup {"MX"}
  /\ lastq' = [kind |-> "MX", name |-> <<domain.v>>]
  /\ UNCHANGED <<op, email, selector, sanitized, domain, mxs, ips, zi, dkLog,
                 blHit, blAfter, blRet, dkRet, dkHit, caught, world, callNo, prev,
                 model, verdict>>

\* getMxRecordCount: a second dns.resolveMx(domain)
MxCount ==
  /\ Enhanced /\ pc = "mxcount"
  /\ \E ans \in AnsMx :
       /\ lastAns' = ans
       /\ features' = Set(features, "mxRecordCount", getMxRecordCount(ans))
  /\ netKinds' = netKinds \cup {"MX"}
  /\ lastq' = [kind |-> "MX", name |-> <<domain.v>>]
  /\ pc' = "bl_mx"
  /\ UNCHANGED <<op, email, selector, sanitized, domain, mxs, ips, zi, dkLog,
                 blHit, blAfter, blRet, dkRet, dkHit, caught, ret, world, callNo, prev,
                 model, verdict>>

\* ------------------------------------------------------------ BlacklistProbe
\* validateDnsblRecords ends with `outcome`: "true" or "false" in server.js's class,
\* "undefined" or "throw" in controller1.js and in the stand-alone function
BlFinish(outcome) ==
  /\ blRet' = outcome
  /\ mxs' = <<>>
  /\ ips' = <<>>
  /\ zi' = 1
  /\ IF Enhanced
     THEN /\ features' = Set(features, "dnsblValidation", Bit(outcome = "true"))
          /\ pc' = "spf"
          /\ ret' = ret
     ELSE IF Basic
     THEN /\ features' = Set(features, "dnsblValidation", outcome)
          /\ pc' = "spf"
          /\ ret' = ret
     ELSE /\ features' = features
          /\ pc' = "done"
          /\ ret' = [t |-> outcome, v |-> <<>>]

\* the outer catch: return false in server.js's class; the other two swallow any
\* error that is not tagged step = 'dnsblValidation'
BlOuterCatch == IF Enhanced THEN "false" ELSE "undefined"

\* no MX records, or every loop ran to its end: return true / return undefined
BlClean == IF Enhanced THEN "true" ELSE "undefined"

\* const mxRecords = await dns.resolveMx(domain)
BlMx ==
  /\ pc = "bl_mx"
  /\ \E ans \in AnsMx :
       /\ lastAns' = NoAnswer
       /\ IF ~ans.ok THEN BlFinish(BlOuterCatch)
          ELSE IF ans.v = <<>> THEN BlFinish(BlClean)
          ELSE /\ mxs' = ans.v
               /\ pc' = "bl_ip"
               /\ UNCHANGED <<ips, zi, blRet, features, ret>>
  /\ netKinds' = netKinds \cup {"MX"}
  /\ lastq' = [kind |-> "MX", name |-> <<domain.v>>]
  /\ blAfter' = (blAfter \/ blHit)
  /\ UNCHANGED <<op, email, selector, sanitized, domain, dkLog, blHit, dkRet, dkHit, caught,
                 world, callNo, prev, model, verdict>>

\* the next MX record, or the end of the outer loop
BlNextMx ==
  IF Len(mxs) > 1
  THEN /\ mxs' = Tail(mxs)
       /\ ips' = <<>>
       /\ zi' = 1
       /\ pc' = "bl_ip"
       /\ UNCHANGED <<blRet, features, ret>>
  ELSE BlFinish(BlClean)

\* ipAddresses = await dns.resolve4(mx.exchange), for the current MX record
BlIp ==
  /\ pc = "bl_ip"
  /\ \E ans \in AnsIp :
       /\ lastAns' = lastAns
       /\ IF ans.ok /\ ans.v # <<>>
          THEN /\ ips' = ans.v
               /\ zi' = 1
               /\ pc' = "bl_zone"
               /\ UNCHANGED <<mxs, blRet, features, ret>>
          ELSE BlNextMx
  /\ netKinds' = netKinds \cup {"resolve4"}
  /\ lastq' = [kind |-> "resolve4", name |-> <<Head(mxs)>>]
  /\ blAfter' = (blAfter \/ blHit)
  /\ UNCHANGED <<op, email, selector, sanitized, domain, dkLog, blHit, dkRet, dkHit, caught,
                 world, callNo, prev, model, verdict>>

\* the next zone, the next address, the next MX record, or the end
BlNextZone ==
  IF zi < Len(dnsblZones)
  THEN /\ zi' = zi + 1
       /\ UNCHANGED <<mxs, ips, pc, blRet, features, ret>>
  ELSE IF Len(ips) > 1
  THEN /\ ips' = Tail(ips)
       /\ zi' = 1
       /\ UNCHANGED <<mxs, pc, blRet, features, ret>>
  ELSE BlNextMx

\* server.js's class: a zone query that resolves with a record ends the probe
\* with return false
BlZoneEnhanced(hit) == IF hit THEN BlFinish("false") ELSE BlNextZone

\* controller1.js and the stand-alone function: a zone query that resolves throws
\* the 'listed' error inside the try whose catch tests err.code: the error has no
\* code, so the catch continues with the next zone
BlZoneBasic(resolved) == BlNextZone

\* await dns.resolve4(`${reversedIP}.${zone}`), for the current address and zone
BlZone ==
  /\ pc = "bl_zone"
  /\ \E ans \in AnsZone(dnsblZones[zi]) :
       LET hit == ans.ok /\ Len(ans.v) > 0
       IN /\ lastAns' = lastAns
          /\ blHit' = (blHit \/ hit)
          /\ IF Enhanced THEN BlZoneEnhanced(hit) ELSE BlZoneBasic(ans.ok)
  /\ netKinds' = netKinds \cup {"zone"}
  /\ lastq' = [kind |-> "zone", name |-> <<Reverse(Head(ips)), dnsblZones[zi]>>]
  /\ blAfter' = (blAfter \/ blHit)
  /\ UNCHANGED <<op, email, selector, sanitized, domain, dkLog, dkRet, dkHit, caught,
                 world, callNo, prev, model, verdict>>

\* --------------------------------------------------------- PolicyRecordProbe
v_spf1 == <<"v", "=", "s", "p", "f", "1">>
v_DMARC1 == <<"v", "=", "D", "M", "A", "R", "C", "1">>
v_DKIM1 == <<"v", "=", "D", "K", "I", "M", "1">>

\* txtRecords.flat().some(record => record.startsWith(prefix)), false on an error
TxtHas(ans, prefix) == ans.ok /\ SomeStartsWith(Flat(ans.v), prefix)

\* a policy check of controller1.js throws on failure and returns nothing on
\* success; extractFeatures' catch block turns the throw into the zero vector
PolicyBasic(passed, label, next) ==
  IF passed
  THEN /\ features' = Set(features, label, "undefined")
       /\ pc' = next
       /\ UNCHANGED <<caught, ret>>
  ELSE /\ features' = features
       /\ caught' = TRUE
       /\ ret' = Vector(CatchVector)
       /\ pc' = "done"

\* validateSpfRecord: dns.resolveTxt(domain)
Spf ==
  /\ pc = "spf"
  /\ \E ans \in AnsSpf :
       /\ lastAns' = lastAns
       /\ IF Enhanced
          THEN /\ features' = Set(features, "spfValidation", Bit(TxtHas(ans, v_spf1)))
               /\ pc' = "dmarc"
               /\ UNCHANGED <<caught, ret>>
          ELSE PolicyBasic(TxtHas(ans, v_spf1), "spfValidation", "dmarc")
  /\ netKinds' = netKinds \cup {"TXT"}
  /\ lastq' = [kind |-> "TXT", name |-> <<domain.v>>]
  /\ UNCHANGED <<op, email, selector, sanitized, domain, mxs, ips, zi, dkLog,
                 blHit, blAfter, blRet, dkRet, dkHit, world, callNo, prev, model, verdict>>

\* validateDmarcRecord: dns.resolveTxt(`_dmarc.${domain}`)
Dmarc ==
  /\ pc = "dmarc"
  /\ \E ans \in AnsDmarc :
       /\ lastAns' = lastAns
       /\ IF Enhanced
          THEN /\ features' = Set(features, "dmarcValidation", Bit(TxtHas(ans, v_DMARC1)))
               /\ pc' = "dkim"
               /\ EnterDkim
               /\ UNCHANGED <<caught, ret>>
          ELSE /\ PolicyBasic(TxtHas(ans, v_DMARC1), "dmarcValidation", "smtp")
               /\ UNCHANGED dkLog
  /\ netKinds' = netKinds \cup {"TXT"}
  /\ lastq' = [kind |-> "TXT", name |-> <<"_dmarc", domain.v>>]
  /\ UNCHANGED <<op, email, selector, sanitized, domain, mxs, ips, zi,
                 blHit, blAfter, blRet, dkRet, dkHit, world, callNo, prev, model, verdict>>

\* the selectors validateDkimRecord tries: the fixed list of server.js's class; the
\* stand-alone function tries its selector argument, or its long list for gmail.com
SelectorList ==
  IF Enhanced THEN selectors
  ELSE IF ToLower(domain.v) = gmail_com THEN gmailSelectors
  ELSE <<selector>>

\* validateDkimRecord ends with `outcome`: "true" or "false" in server.js's class,
\* "undefined" (a plain return) or "throw" in the stand-alone function
DkFinish(outcome) ==
  /\ dkRet' = outcome
  /\ IF Enhanced
     THEN /\ features' = Set(features, "dkimValidation", Bit(outcome = "true"))
          /\ pc' = "smtp"
          /\ ret' = ret
     ELSE /\ features' = features
          /\ pc' = "done"
          /\ ret' = [t |-> outcome, v |-> <<>>]

\* what follows a selector whose records match, and one whose records do not
DkMatched_KeepLooking ==
  IF Len(dkLog) + 1 < Len(SelectorList)
  THEN UNCHANGED <<dkRet, features, pc, ret>>
  ELSE DkFinish(IF Enhanced THEN "true" ELSE "undefined")
DkMatched == DkFinish(IF Enhanced THEN "true" ELSE "undefined")
DkExhausted == DkFinish(IF Enhanced THEN "false" ELSE "throw")
DkSkipped ==
  IF Len(dkLog) + 1 < Len(SelectorList)
  THEN UNCHANGED <<dkRet, features, pc, ret>>
  ELSE DkExhausted

\* await dns.resolveTxt(`${selector}._domainkey.${domain}`), for the next selector
Dkim ==
  /\ pc = "dkim"
  /\ Len(dkLog) < Len(SelectorList)
  /\ LET sel == SelectorList[Len(dkLog) + 1]
     IN /\ \E ans \in AnsDkim(sel) :
             /\ lastAns' = lastAns
             /\ dkHit' = TxtHas(ans, v_DKIM1)
             /\ IF TxtHas(ans, v_DKIM1) THEN DkMatched ELSE DkSkipped
        /\ dkLog' = Append(dkLog, sel)
        /\ lastq' = [kind |-> "TXT", name |-> <<sel, "_domainkey", domain.v>>]
  /\ netKinds' = netKinds \cup {"TXT"}
  /\ UNCHANGED <<op, email, selector, sanitized, domain, mxs, ips, zi,
                 blHit, blAfter, blRet, caught, world, callNo, prev, model, verdict>>

\* ------------------------------------------------------------------ SMTPProbe
\* validateSMTPConnection: verifyEmail({emailAddress, verifySmtp: true, timeout: 3000})
Smtp ==
  /\ pc = "smtp"
  /\ \E ans \in AnsSmtp :
       features' = Set(features, "smtpValidation", FeatureVal(ans = "valid"))
  /\ netKinds' = netKinds \cup {"smtp"}
  /\ pc' = "return"
  /\ UNCHANGED <<op, email, selector, sanitized, domain, mxs, ips, zi, dkLog, lastq, lastAns,
                 blHit, blAfter, blRet, dkRet, dkHit, caught, ret, world, callNo, prev, model, verdict>>

\* -------------------------------------------------------------- the returns
\* features[feature] === undefined: features[feature] = 0
Defaulted(f, labels) ==
  [i \in 1..Len(labels) |-> IF Has(f, labels[i]) THEN Get(f, labels[i]) ELSE 0]

\* server.js extractFeatures, after the last probe: the local-part features, then
\* this.featureLabels.map(label => features[label])
EF_Return ==
  /\ Enhanced /\ pc = "return"
  /\ LET lp == localPartOf(sanitized.v).v
         f1 == Set(features, "hasNumbers", Bit(hasNumbers(lp)))
         f2 == Set(f1, "specialCharCount", Min(countSpecialChars(lp) * (Unit \div 5), Unit))
         f3 == Set(f2, "consecutiveSpecialChars", Bit(hasConsecutiveSpecialChars(lp)))
     IN /\ features' = f3
        /\ ret' = Vector(Defaulted(f3, featureLabels))
  /\ pc' = "done"
  /\ UNCHANGED <<op, email, selector, sanitized, domain, mxs, ips, zi, dkLog, netKinds,
                 lastq, lastAns, blHit, blAfter, blRet, dkRet, dkHit, caught, world, callNo, prev, model, verdict>>

\* controller1.js extractFeatures: Object.values(features).map(v => v ? 1 : 0)
E1_Return ==
  /\ Basic /\ pc = "return"
  /\ ret' = Vector([i \in 1..Len(features) |->
                      IF Values(features)[i] = "true" THEN Unit ELSE 0])
  /\ pc' = "done"
  /\ UNCHANGED <<op, email, selector, sanitized, domain, features, mxs, ips, zi, dkLog,
                 netKinds, lastq, lastAns, blHit, blAfter, blRet, dkRet, dkHit, caught, world, callNo,
                 prev, model, verdict>>

\* ------------------------------------------------------ the specifications
Next ==
  \/ Call
  \/ EF_Sanitize \/ EF_Pure \/ E1_Sanitize
  \/ DnsA \/ MxV \/ MxCount
  \/ BlMx \/ BlIp \/ BlZone
  \/ Spf \/ Dmarc \/ Dkim \/ Smtp
  \/ EF_Return \/ E1_Return

Spec == Init /\ [][Next]_vars

\* the same validator called MaxCalls times with the same address, against a
\* network that answers every query the same way each time
InitStable ==
  /\ op = "idle"
  /\ email = Null
  /\ selector = "default"
  /\ sanitized = Undefined
  /\ domain = Undefined
  /\ pc = "idle"
  /\ features = <<>>
  /\ mxs = <<>>
  /\ ips = <<>>
  /\ zi = 1
  /\ dkLog = <<>>
  /\ netKinds = {}
  /\ lastq = NoQuery
  /\ lastAns = NoAnswer
  /\ blHit = FALSE
  /\ blAfter = FALSE
  /\ blRet = "none"
  /\ dkRet = "none"
  /\ dkHit = FALSE
  /\ caught = FALSE
  /\ ret = Pending
  /\ world \in Worlds
  /\ callNo = 0
  /\ prev = Pending
  /\ model = "null"
  /\ verdict = NoVerdict

CallStable ==
  /\ pc = "idle"
  /\ callNo' = 1
  /\ \E e \in StableInputs : Begin("extractFeatures", e, Undefined, "default", "sanitize")
  /\ UNCHANGED <<dkLog, world, prev, model, verdict>>

Again ==
  /\ pc = "done"
  /\ callNo < MaxCalls
  /\ callNo' = callNo + 1
  /\ prev' = ret
  /\ Begin(op, email, Undefined, "default", "sanitize")
  /\ UNCHANGED <<dkLog, world, model, verdict>>

NextStable ==
  \/ CallStable \/ Again
  \/ EF_Sanitize \/ EF_Pure
  \/ DnsA \/ MxV \/ MxCount
  \/ BlMx \/ BlIp \/ BlZone
  \/ Spf \/ Dmarc \/ Dkim \/ Smtp
  \/ EF_Return

SpecStable == InitStable /\ [][NextStable]_vars

\* ---------------------------------------------------------------- properties
Extracting == op \in {"extractFeatures", "extractFeatures1"}

\* the inputs the parser is to reject: a non-string, an empty or blank string, a
\* string with a comma or a semicolon, a string of several tokens
ParserRejects(e) ==
  \/ ~IsStr(e)
  \/ \A i \in 1..Len(e.v) : IsSpace(e.v[i])
  \/ \E i \in 1..Len(e.v) : e.v[i] \in {",", ";"}
  \/ \E j \in 1..Len(e.v) :
       /\ IsSpace(e.v[j])
       /\ \E i \in 1..(j - 1) : ~IsSpace(e.v[i])
       /\ \E k \in (j + 1)..Len(e.v) : ~IsSpace(e.v[k])

\* the position of a label in the vector of the running validator
Slot(label) == CHOOSE i \in 1..Len(Labels) : Labels[i] = label

\* the number a stored feature value becomes in the returned vector
AsNumber(v) == IF Enhanced THEN v ELSE IF v = "true" THEN Unit ELSE 0

\* C1: sanitizeEmail rejects exactly the non-strings, the empty and blank strings,
\* the strings with a comma or a semicolon and the strings of several tokens, and
\* for each of them extractFeatures returns a vector of featureLabels.length
\* entries that are all 0.
C1_RejectedGivesZeroVector ==
  Extracting =>
    /\ pc \notin {"idle", "sanitize"} => (~IsStr(sanitized) <=> ParserRejects(email))
    /\ (pc = "done" /\ ParserRejects(email)) =>
         /\ ret.t = "vector"
         /\ Len(ret.v) = Len(Labels)
         /\ \A i \in 1..Len(ret.v) : ret.v[i] = 0

C1_Witness ==
  /\ op = "extractFeatures" /\ pc = "done"
  /\ email = Str(two_tokens)
  /\ ret = Vector(Zeros(Len(featureLabels)))

\* C2: while extractFeatures handles an input that sanitizeEmail rejects, no DNS,
\* DNSBL or SMTP query is issued, from the call to the return.
C2_RejectedIssuesNoQuery ==
  (Extracting /\ ParserRejects(email)) => (netKinds = {} /\ lastq = NoQuery)

C2_Witness ==
  /\ op = "extractFeatures" /\ pc = "done"
  /\ email = Str(two_addresses)
  /\ netKinds = {}

\* C3: extractFeatures always returns (it never throws) a vector of exactly
\* featureLabels.length entries; slot i holds the value of the feature named
\* featureLabels[i], whichever probes passed or failed, and after a total failure
\* the vector is all zeros of the same length.
C3_CanonicalShape ==
  (Extracting /\ pc = "done") =>
    /\ ret.t = "vector"
    /\ Len(ret.v) = Len(Labels)
    /\ IF caught \/ ~IsStr(sanitized)
       THEN ret.v = Zeros(Len(Labels))
       ELSE \A i \in 1..Len(Labels) :
              /\ Has(features, Labels[i])
              /\ ret.v[i] = AsNumber(Get(features, Labels[i]))

C3_Witness ==
  /\ op = "extractFeatures" /\ pc = "done" /\ ~caught
  /\ email = Str(john_doe)
  /\ Len(ret.v) = Len(featureLabels)
  /\ ret.v[Slot("dnsValidation")] = Unit
  /\ ret.v[Slot("dnsblValidation")] = 0
  /\ ret.v[Slot("dkimValidation")] = Unit
  /\ ret.v[Slot("smtpValidation")] = 0

\* C4: when a step of extractFeatures throws an unexpected exception on an input
\* that sanitizeEmail accepted, only the slot of that step is 0 in the returned
\* vector: inputValidation stays 1 and every slot computed before the exception
\* keeps its value.
C4_OnlyThrowingProbeZeroed ==
  (Extracting /\ pc = "done" /\ caught /\ IsStr(sanitized)) =>
    /\ ret.t = "vector"
    /\ ret.v[Slot("inputValidation")] = Unit
    /\ \A i \in 1..Len(features) :
         ret.v[Slot(features[i][1])] = AsNumber(features[i][2])

\* C5: an input that sanitizeEmail accepts and the syntax check refuses (an input
\* without '@' included) does not end extractFeatures early: inputValidation is 1,
\* syntaxValidation is 0, and the DNS, policy-record and SMTP probes still run.
C5_SyntaxInvalidRunsOn ==
  (Extracting /\ pc = "done" /\ IsStr(sanitized) /\ ~validateEmailFormat(sanitized.v)) =>
    /\ ret.t = "vector"
    /\ ret.v[Slot("inputValidation")] = Unit
    /\ ret.v[Slot("syntaxValidation")] = 0
    /\ {"A", "MX", "TXT", "smtp"} \subseteq netKinds

\* C6: validateDnsblRecords of server.js's class reports `listed` (false) only
\* when a blocklist zone query resolved with a record; a failed MX lookup, a
\* failed address lookup and a failed zone lookup all report `not listed` (true).
C6_ListedOnlyOnZoneHit ==
  (Enhanced /\ blRet # "none") =>
    /\ blRet = "false" => blHit
    /\ ~blHit => blRet = "true"

\* C7: in every validateDnsblRecords, the first blocklist zone query that
\* resolves with a record ends the probe: no later query is issued, and the
\* `listed` outcome reaches the caller (false, or the thrown error).
C7_HitShortCircuits ==
  /\ ~blAfter
  /\ (blHit /\ blRet # "none") => blRet \in {"false", "throw"}
  /\ (blHit /\ op \in {"extractFeatures", "extractFeatures1", "validateDnsblRecords"}) =>
       blRet # "none"

\* what validateDkimRecord returns when a selector matched
DkPass == IF Enhanced THEN "true" ELSE "undefined"

\* the selectors are queried in list order, each as <selector>._domainkey.<domain>,
\* and the first one whose records hold a v=DKIM1 entry ends the probe with pass
C8_OrderAndShortCircuit ==
  /\ Len(dkLog) <= Len(SelectorList)
  /\ \A i \in 1..Len(dkLog) : dkLog[i] = SelectorList[i]
  /\ (dkLog # <<>> /\ (pc \in {"dkim", "smtp"} \/ ~Enhanced)) =>
       lastq = [kind |-> "TXT", name |-> <<dkLog[Len(dkLog)], "_domainkey", domain.v>>]
  /\ dkHit <=> dkRet = DkPass
  /\ (dkRet # "none" /\ ~dkHit) => Len(dkLog) = Len(SelectorList)
  /\ (~dkHit /\ Len(dkLog) = Len(SelectorList)) => dkRet # "none"

C9_Deterministic ==
  (op = "extractFeatures" /\ pc = "done" /\ callNo > 1) => ret = prev

C9_Witness ==
  /\ op = "extractFeatures" /\ pc = "done" /\ callNo = MaxCalls
  /\ email = Str(john_doe)
  /\ ret = prev
  /\ ret.v[Slot("dkimValidation")] = Unit
  /\ ret.v[Slot("dnsblValidation")] = 0

\* john.doe@example.com, on a network where every probe passes
AllPass ==
  /\ op = "extractFeatures" /\ pc = "done"
  /\ email = Str(john_doe)
  /\ world.stable
  /\ world.a.ok /\ world.a.v # <<>>
  /\ world.mx.ok /\ SomeExchange(world.mx.v)
  /\ world.listed = {}
  /\ TxtHas(world.spf, v_spf1)
  /\ TxtHas(world.dmarc, v_DMARC1)
  /\ world.dkimAt # {}
  /\ world.smtp = "valid"

\* the slots that hold a yes or a no
BooleanLabels ==
  {"inputValidation", "syntaxValidation", "disposableDomain", "commonDomain",
   "dnsValidation", "mxValidation", "dnsblValidation", "spfValidation",
   "dmarcValidation", "dkimValidation", "smtpValidation", "hasNumbers",
   "consecutiveSpecialChars"}

\* the yes-or-no slots that are 0 for john.doe@example.com
ZeroForJohnDoe == {"commonDomain", "hasNumbers", "consecutiveSpecialChars"}

\* C10: for john.doe@example.com on a network where every probe passes,
\* extractFeatures of server.js returns a vector of 20 entries in which every
\* boolean slot is 1, except commonDomain, hasNumbers and consecutiveSpecialChars,
\* which are 0.
C10_AllPassVector ==
  AllPass =>
    /\ Len(ret.v) = 20
    /\ \A l \in BooleanLabels \ ZeroForJohnDoe : ret.v[Slot(l)] = Unit
    /\ \A l \in ZeroForJohnDoe : ret.v[Slot(l)] = 0

C10_Witness ==
  /\ AllPass
  /\ callNo = 1
  /\ ret.t = "vector"
  /\ world.dkimAt = {"dkim"}
  /\ Len(dkLog) = Len(selectors)

\* C10 as first stated: every boolean slot is 1.
C10_EveryBooleanSlotIsOne ==
  AllPass =>
    /\ Len(ret.v) = 20
    /\ \A l \in BooleanLabels : ret.v[Slot(l)] = Unit

\* the answer holds at least one record whose exchange host is not blank
HasNonBlankExchange(ans) ==
  \E i \in 1..Len(ans.v) : \E j \in 1..Len(ans.v[i]) : ~IsSpace(ans.v[i][j])

\* min(recordCount / 5, 1)
CountOf(n) == IF n >= 5 THEN Unit ELSE n * (Unit \div 5)

\* the three DNS probes of server.js's class: each result is a plain value, computed
\* from the answer of its own lookup, and a resolution error gives false or 0
C11_ClassProbes ==
  Enhanced =>
    /\ pc = "mx" =>
         Get(features, "dnsValidation") = Bit(lastAns.ok /\ Len(lastAns.v) >= 1)
    /\ pc = "mxcount" =>
         Get(features, "mxValidation") = Bit(lastAns.ok /\ HasNonBlankExchange(lastAns))
    /\ pc = "bl_mx" =>
         Get(features, "mxRecordCount") = (IF lastAns.ok THEN CountOf(Len(lastAns.v)) ELSE 0)
    /\ pc \in {"mx", "mxcount", "bl_mx"} => (~caught /\ ret = Pending)
    /\ caught => ~Has(features, "dnsValidation")

AwaitingDns ==
  pc \in {"dnsA", "mx", "mxcount", "bl_mx", "bl_ip", "bl_zone", "spf", "dmarc", "dkim"}

\* the awaited promise never settles: the call stays suspended at its await
Hang ==
  /\ AwaitingDns
  /\ pc' = "waiting"
  /\ UNCHANGED <<op, email, selector, sanitized, domain, features, mxs, ips, zi, dkLog,
                 netKinds, lastq, lastAns, blHit, blAfter, blRet, dkRet, dkHit, caught,
                 ret, world, callNo, prev, model, verdict>>

HangInputs == {Null, Str(john_doe)}

CallHang ==
  /\ pc = "idle"
  /\ callNo' = 1
  /\ \E e \in HangInputs : Begin("extractFeatures", e, Undefined, "default", "sanitize")
  /\ UNCHANGED <<dkLog, world, prev, model, verdict>>

NextHang ==
  \/ CallHang \/ Hang
  \/ EF_Sanitize \/ EF_Pure
  \/ DnsA \/ MxV \/ MxCount
  \/ BlMx \/ BlIp \/ BlZone
  \/ Spf \/ Dmarc \/ Dkim \/ Smtp
  \/ EF_Return

SpecHang == Init /\ [][NextHang]_vars

\* C12: every call to extractFeatures eventually returns, even when a DNS
\* resolution or a DNSBL zone query never responds: a call that waits for such a
\* response can always take a further step, because the deadline abandons the
\* pending probe.
C12_EveryCallCanReturn ==
  (op = "extractFeatures" /\ pc = "waiting") => ENABLED NextHang

\* ------------------------------------------------------------------ predict
\* predict has been called and awaits extractFeatures
Awaited == [t |-> "awaited", valid |-> FALSE, confidence |-> 0, error |-> ""]

\* the scores a loaded classifier can give
Confidences == {0, Unit \div 2, Unit}

\* trainModel or loadModel: this.model = ...
LoadModel ==
  /\ pc = "idle" /\ model = "null"
  /\ model' = "loaded"
  /\ UNCHANGED <<op, email, selector, sanitized, domain, pc, features, mxs, ips, zi, dkLog,
                 netKinds, lastq, lastAns, blHit, blAfter, blRet, dkRet, dkHit, caught,
                 ret, world, callNo, prev, verdict>>

PredictInputs == {Null, Str(john_doe)}

\* predict(email): const features = await this.extractFeatures(email)
CallPredict ==
  /\ pc = "idle"
  /\ callNo' = 1
  /\ verdict' = Awaited
  /\ \E e \in PredictInputs : Begin("extractFeatures", e, Undefined, "default", "sanitize")
  /\ UNCHANGED <<dkLog, world, prev, model>>

\* predict, after extractFeatures: this.model.predict(tensor) is a TypeError when
\* this.model is null, and the catch block returns its defaults
Predict ==
  /\ pc = "done" /\ verdict = Awaited
  /\ IF model = "null"
     THEN verdict' = [t |-> "verdict", valid |-> FALSE, confidence |-> 0,
                      error |-> "TypeError"]
     ELSE \E c \in Confidences :
            verdict' = [t |-> "verdict", valid |-> (c >= Unit \div 2), confidence |-> c,
                        error |-> ""]
  /\ UNCHANGED <<op, email, selector, sanitized, domain, pc, features, mxs, ips, zi, dkLog,
                 netKinds, lastq, lastAns, blHit, blAfter, blRet, dkRet, dkHit, caught,
                 ret, world, callNo, prev, model>>

NextPredict ==
  \/ LoadModel \/ CallPredict \/ Predict
  \/ EF_Sanitize \/ EF_Pure
  \/ DnsA \/ MxV \/ MxCount
  \/ BlMx \/ BlIp \/ BlZone
  \/ Spf \/ Dmarc \/ Dkim \/ Smtp
  \/ EF_Return

SpecPredict == Init /\ [][NextPredict]_vars

\* C13: a prediction requested while no classifier is loaded gives the caller a
\* distinct model-not-initialized outcome, never an ordinary verdict with a
\* defaulted score (valid = false, confidence = 0).
C13_ModelNotInitialized ==
  (model = "null" /\ verdict.t \notin {"none", "awaited"}) =>
    /\ verdict.t = "model not initialized"
    /\ ~(verdict.valid = FALSE /\ verdict.confidence = 0)

\* --------------------------------------------------- calculateDomainTypoScore
\* domains at every distance from the common ones, in both letter cases
TypoDomains ==
  { gmail_com, example_com, <<>>,
    <<"G", "m", "a", "i", "l", ".", "c", "o", "m">>,
    <<"g", "m", "a", "i", ".", "c", "o", "m">>,
    <<"g", "m", "i", "a", "l", ".", "c", "o", "m">>,
    <<"g", "m", "a", "l", ".", "c", "o">>,
    <<"a", "o", "l", ".", "c", "o", "m">>,
    <<"A", "O", "L", ".", "C", "O", "M">>,
    <<"a", "o", "l", ".", "c", "o">>,
    <<"a", ".", "c", "o">>,
    <<"y", "a", "h", "o", "o", "o", ".", "c", "o", "m">>,
    <<"Z", "o", "h", "o", ".", "c", "o", "m">>,
    <<"z", "o", "h", "o", "o", ".", "n", "e", "t">>,
    <<"m", "a", "i", "l", ".", "c", "o", "m">>,
    <<"x">> }

\* this.calculateDomainTypoScore(domain) is called
TypoCall ==
  /\ pc = "idle"
  /\ callNo' = 1
  /\ \E d \in TypoDomains : Begin("calculateDomainTypoScore", Null, Str(d), "default", "typo")
  /\ UNCHANGED <<dkLog, world, prev, model, verdict>>

\* it returns its score
TypoScore ==
  /\ pc = "typo"
  /\ ret' = [t |-> "number", v |-> <<calculateDomainTypoScore(domain.v)>>]
  /\ pc' = "done"
  /\ UNCHANGED <<op, email, selector, sanitized, domain, features, mxs, ips, zi, dkLog,
                 netKinds, lastq, lastAns, blHit, blAfter, blRet, dkRet, dkHit, caught,
                 world, callNo, prev, model, verdict>>

\* it is called again, with another domain; prev keeps the domain and the score
\* of the call before
TypoAgain ==
  /\ op = "calculateDomainTypoScore" /\ pc = "done"
  /\ callNo < MaxCalls
  /\ callNo' = callNo + 1
  /\ prev' = [t |-> "number", v |-> <<domain.v, ret.v[1]>>]
  /\ \E d \in TypoDomains : Begin("calculateDomainTypoScore", Null, Str(d), "default", "typo")
  /\ UNCHANGED <<dkLog, world, model, verdict>>

NextTypo == TypoCall \/ TypoScore \/ TypoAgain

SpecTypo == Init /\ [][NextTypo]_vars

\* the least edit distance from the lower-cased domain to a common domain
Nearest(d) ==
  LET ds == {levenshtein(ToLower(d), commonDomains[i]) : i \in 1..Len(commonDomains)}
  IN CHOOSE m \in ds : \A x \in ds : x >= m

\* min(d / 3, 1)
ThirdOf(d) == IF d >= 3 THEN Unit ELSE d * (Unit \div 3)

\* C14: calculateDomainTypoScore returns 0 for every domain in commonDomains
\* (compared case-insensitively) and min(d / 3, 1) for any other domain, d being
\* its least edit distance to a common domain; so the score is strictly positive
\* for every other domain, never above 1, and non-decreasing in d.
C14_TypoScore ==
  (op = "calculateDomainTypoScore" /\ pc = "done") =>
    LET score == ret.v[1]
        common == \E i \in 1..Len(commonDomains) : commonDomains[i] = ToLower(domain.v)
    IN /\ common => score = 0
       /\ ~common => (score = ThirdOf(Nearest(domain.v)) /\ score > 0)
       /\ score <= Unit
       /\ callNo > 1 =>
            /\ Nearest(prev.v[1]) <= Nearest(domain.v) => prev.v[2] <= score
            /\ Nearest(prev.v[1]) >= Nearest(domain.v) => prev.v[2] >= score

C14_Witness ==
  /\ op = "calculateDomainTypoScore" /\ pc = "done" /\ callNo = 2
  /\ prev.v[1] = <<"g", "m", "a", "i", ".", "c", "o", "m">>
  /\ prev.v[2] = Unit \div 3
  /\ domain.v = <<"g", "m", "i", "a", "l", ".", "c", "o", "m">>
  /\ ret.v[1] = 2 * (Unit \div 3)

BlFailedOnItsMxLookup == blRet = "false" /\ ~blHit

\* C16: the MX-derived slots of one returned vector agree with one another although
\* extractFeatures looks the MX records up three times: mxValidation = 1 implies
\* mxRecordCount > 0, and mxRecordCount > 0 implies that the blacklist probe did
\* not fail on its own MX lookup.
C16_MxSlotsConsistent ==
  (Enhanced /\ pc = "done" /\ ~caught /\ IsStr(sanitized)) =>
    /\ ret.v[Slot("mxValidation")] = Unit => ret.v[Slot("mxRecordCount")] > 0
    /\ ret.v[Slot("mxRecordCount")] > 0 => ~BlFailedOnItsMxLookup

====
